---- MODULE Spec2Model ----
(***************************************************************************)
(* The chart pipeline of scripts/chart_extension.py: ChartPreprocessor.run *)
(* (the extractor), ChartPostprocessor.run with _generate_chart_html (the  *)
(* renderer) and _deep_merge.                                              *)
(*                                                                         *)
(* A line of text is a record [pad, core, arg]: pad is the amount of       *)
(* surrounding whitespace, core the text once trimmed, arg the variable    *)
(* part of a generated line (an identifier or a failure message).          *)
(* A decoded YAML value is a record [t, v, m]: t is the Python type, v the *)
(* scalar's text, m the mapping's content (empty unless t = "map").        *)
(***************************************************************************)
EXTENDS Integers, Sequences, FiniteSets

VARIABLES
  lines,          \* run(lines): the input of the extractor
  i,              \* run: the line index
  new_lines,      \* run: the output being built
  chart_lines,    \* run: the body of the block being read
  hasStore,       \* hasattr(md, 'chart_configs')
  chart_configs,  \* md.chart_configs
  issued,         \* the chart_id values generated so far, in order
  pc,             \* where the conversion stands
  text,           \* the text handed to ChartPostprocessor.run
  html,           \* the text it returns
  dict1,          \* _deep_merge: first argument
  dict2,          \* _deep_merge: second argument
  result,         \* _deep_merge: returned mapping
  mpc,            \* _deep_merge: "call" before, "returned" after
  heap,           \* _deep_merge: the dict objects, by address
  ref1,           \* _deep_merge: the address of dict1
  ref2,           \* _deep_merge: the address of dict2
  ret,            \* _deep_merge: the address of the returned dict, 0 before
  literal,        \* a string of chart_config, as tokens
  emitted,        \* what config_json holds for it
  upc,            \* "dump" before the serialization, "dumped" after
  converted,      \* convert_markdown_to_pdf: what md.convert(content) returned
  html_content,   \* convert_markdown_to_pdf: html_content
  report,         \* dist/report.html: whether it exists, the ids of its canvases
  chart_images,   \* convert_markdown_to_pdf: the keys of chart_images
  warnings,       \* convert_markdown_to_pdf: the warnings printed
  full_html,      \* convert_markdown_to_pdf: the body handed to write_pdf
  ppc,            \* convert_markdown_to_pdf: "capture", "build", "written", "aborted"
  doc,            \* how many documents the Markdown instance has been given
  cfg,            \* _generate_chart_html: config
  rendered,       \* _generate_chart_html: what it returns
  rpc,            \* _generate_chart_html: "call" before, "returned" after
  config_js,      \* the page: for each init script, the callback text in its config
  phase,          \* the page: where each init script stands
  readyState,     \* the page: document.readyState
  chartDefined,   \* the page: typeof Chart !== 'undefined'
  surface,        \* the page: getElementById(chart_id) finds the canvas
  widgets,        \* the page: how many times new Chart(ctx, config) was run on it
  objects,        \* get_chart_template: the dict objects, by address
  template_name,  \* get_chart_template: the name of the last call
  kwargs,         \* get_chart_template: the overrides of the last call
  template,       \* get_chart_template: the address of the dict it returned
  tpc,            \* get_chart_template: "call", "returned" or "ValueError"
  calls           \* get_chart_template: how many calls were made

vars == <<lines, i, new_lines, chart_lines, hasStore, chart_configs, issued,
          pc, text, html, dict1, dict2, result, mpc, heap, ref1, ref2, ret,
          literal, emitted, upc, converted, html_content, report, chart_images,
          warnings, full_html, ppc, doc, cfg, rendered, rpc, config_js,
          phase, readyState, chartDefined, surface, widgets, objects,
          template_name, kwargs, template, tpc, calls>>

pipeVars == <<lines, i, new_lines, chart_lines, hasStore, chart_configs,
              issued, pc, text, html, doc>>

mergeVars == <<dict1, dict2, result, mpc, heap, ref1, ref2, ret>>

\* everything but the state of a conversion
unquoteVars == <<literal, emitted, upc>>

pdfVars == <<converted, html_content, report, chart_images, warnings, full_html, ppc>>

renderVars == <<cfg, rendered, rpc>>

pageVars == <<config_js, phase, readyState, chartDefined, surface, widgets>>

templateVars == <<objects, template_name, kwargs, template, tpc, calls>>

\* what a step of a conversion leaves alone
sideVars == <<mergeVars, unquoteVars, pdfVars, renderVars, pageVars, templateVars, doc>>

\* what a call of _deep_merge leaves alone, and so on
exceptMerge == <<pipeVars, unquoteVars, pdfVars, renderVars, pageVars, templateVars>>

exceptUnquote == <<pipeVars, mergeVars, pdfVars, renderVars, pageVars, templateVars>>

exceptPdf == <<pipeVars, mergeVars, unquoteVars, renderVars, pageVars, templateVars>>

exceptRender == <<pipeVars, mergeVars, unquoteVars, pdfVars, pageVars, templateVars>>

exceptPage == <<pipeVars, mergeVars, unquoteVars, pdfVars, renderVars, templateVars>>

exceptTemplate == <<pipeVars, mergeVars, unquoteVars, pdfVars, renderVars, pageVars>>

(***************************************************************************)
(* Bounds                                                                  *)
(***************************************************************************)
MaxLen == 5

NumIds == 2

NumScalars == 2

(***************************************************************************)
(* Decoded values                                                          *)
(***************************************************************************)
EmptyDict == [k \in {} |-> ""]

Null == [t |-> "null", v |-> "", m |-> EmptyDict]

Str(s) == [t |-> "str", v |-> s, m |-> EmptyDict]

Num(s) == [t |-> "int", v |-> s, m |-> EmptyDict]

Bool(s) == [t |-> "bool", v |-> s, m |-> EmptyDict]

List(s) == [t |-> "list", v |-> s, m |-> EmptyDict]

Map(f) == [t |-> "map", v |-> "", m |-> f]

IsDict(x) == x.t = "map"

(***************************************************************************)
(* The parts of the state that a specification does not use stay idle      *)
(***************************************************************************)
\* no conversion is under observation
PipeIdle ==
  /\ lines = <<>>
  /\ i = 0
  /\ new_lines = <<>>
  /\ chart_lines = <<>>
  /\ hasStore = FALSE
  /\ chart_configs = EmptyDict
  /\ issued = <<>>
  /\ pc = "off"
  /\ text = <<>>
  /\ html = <<>>
  /\ doc = 0

\* no call of _deep_merge is under observation
MergeIdle ==
  /\ dict1 = Map(EmptyDict)
  /\ dict2 = Map(EmptyDict)
  /\ result = Null
  /\ mpc = "off"
  /\ heap = <<>>
  /\ ref1 = 0
  /\ ref2 = 0
  /\ ret = 0

\* no string is under observation
UnquoteIdle ==
  /\ literal = <<>>
  /\ emitted = <<>>
  /\ upc = "off"

\* no PDF conversion is under observation
PdfIdle ==
  /\ converted = <<>>
  /\ html_content = <<>>
  /\ report = [exists |-> FALSE, canvases |-> {}]
  /\ chart_images = {}
  /\ warnings = <<>>
  /\ full_html = <<>>
  /\ ppc = "off"

\* no call of _generate_chart_html is under observation
RenderIdle ==
  /\ cfg = Null
  /\ rendered = Null
  /\ rpc = "off"

\* no page is under observation
PageIdle ==
  /\ config_js = <<>>
  /\ phase = <<>>
  /\ readyState = "off"
  /\ chartDefined = FALSE
  /\ surface = FALSE
  /\ widgets = 0

\* no call of get_chart_template is under observation
TemplateIdle ==
  /\ objects = <<>>
  /\ template_name = ""
  /\ kwargs = EmptyDict
  /\ template = 0
  /\ tpc = "off"
  /\ calls = 0

AllIdleBut(part) ==
  /\ IF part = "pipe" THEN TRUE ELSE PipeIdle
  /\ IF part = "merge" THEN TRUE ELSE MergeIdle
  /\ IF part = "unquote" THEN TRUE ELSE UnquoteIdle
  /\ IF part = "pdf" THEN TRUE ELSE PdfIdle
  /\ IF part = "render" THEN TRUE ELSE RenderIdle
  /\ IF part = "page" THEN TRUE ELSE PageIdle
  /\ IF part = "template" THEN TRUE ELSE TemplateIdle

(***************************************************************************)
(* Lines.  <fence> stands for the three grave accents of a code fence,     *)
(* which a TLA+ string cannot hold.                                        *)
(***************************************************************************)
Line(p, c, a) == [pad |-> p, core |-> c, arg |-> a]

Strip(line) == [line EXCEPT !.pad = 0]

FenceOpen == Line(0, "<fence>chart", "")

FenceClose == Line(0, "<fence>", "")

IdPool == <<"chart_1a2b3c4d", "chart_5e6f7a8b", "chart_9c0d1e2f", "chart_3a4b5c6d">>

Ids == {IdPool[k] : k \in 1..NumIds}

PlaceholderLine(chart_id) == Line(0, "chart-placeholder", chart_id)

ErrorLine(e) == Line(0, "chart-error", e)

TypeLine == Line(0, "type: line", "")

OptionsMapLine == Line(0, "options: {scales: {y: {beginAtZero: false}}}", "")

OptionsIntLine == Line(0, "options: 5", "")

SequenceLine == Line(0, "- a", "")

Alphabet ==
  { FenceOpen, Line(1, "<fence>", ""), TypeLine, OptionsMapLine, OptionsIntLine,
    SequenceLine, PlaceholderLine(IdPool[1]) }

Inputs == UNION {[1..n -> Alphabet] : n \in 0..MaxLen}

(***************************************************************************)
(* yaml.safe_load('\n'.join(chart_lines)) on the lines of the alphabet.    *)
(* Lines of "key: value" form make a block mapping (of a repeated key the  *)
(* last value stays), lines of "- item" form a block sequence, and a line  *)
(* that starts a plain scalar is continued by every following line that    *)
(* holds no ": ".  A fence at the start of a token, or a line of another   *)
(* form inside a mapping or a sequence, is a YAMLError.                    *)
(***************************************************************************)
NestedOverride == Map([scales |-> Map([y |-> Map([beginAtZero |-> Bool("false")])])])

IsMappingLine(l) == l \in {TypeLine, OptionsMapLine, OptionsIntLine}

MappingKey(l) == IF l = TypeLine THEN "type" ELSE "options"

IsPlainStart(l) == l.core = "chart-placeholder"

IsPlainContinuation(l) == ~IsMappingLine(l)

MappingValue(l) ==
  IF l = TypeLine THEN Str("line")
  ELSE IF l = OptionsMapLine THEN NestedOverride ELSE Num("5")

\* the mapping a body of "key: value" lines decodes to
BlockMapping(body) ==
  LET LastOf(key) == CHOOSE k \in 1..Len(body) :
                       /\ MappingKey(body[k]) = key
                       /\ \A j \in 1..Len(body) : MappingKey(body[j]) = key => j <= k
  IN  Map([key \in {MappingKey(body[k]) : k \in 1..Len(body)} |->
             MappingValue(body[LastOf(key)])])

ScannerError == "found character that cannot start any token"

ParserError == "expected <block end>"

MappingNotAllowed == "mapping values are not allowed here"

Compatible(first, l) ==
  IF IsMappingLine(first) THEN IsMappingLine(l)
  ELSE IF first = SequenceLine THEN l = SequenceLine
  ELSE IF IsPlainStart(first) THEN IsPlainContinuation(l)
  ELSE FALSE

YamlLoad(body) ==
  LET first == body[1]
      bad == {k \in 1..Len(body) : ~Compatible(first, body[k])}
      at == CHOOSE k \in bad : \A j \in bad : k <= j
  IN  IF bad # {}
        THEN [ok |-> FALSE, value |-> Null,
              err |-> IF Strip(body[at]) = FenceOpen THEN ScannerError
                      ELSE IF IsPlainStart(first) THEN MappingNotAllowed
                      ELSE ParserError]
      ELSE IF IsMappingLine(first)
        THEN [ok |-> TRUE, value |-> BlockMapping(body), err |-> ""]
      ELSE IF first = SequenceLine
        THEN [ok |-> TRUE, value |-> List("a"), err |-> ""]
      ELSE [ok |-> TRUE, value |-> Str("folded"), err |-> ""]

(***************************************************************************)
(* ChartPreprocessor.run, one step of its loops at a time                  *)
(***************************************************************************)
IndexError == Line(0, "IndexError", "")

\* lines[i] of Python (0-based); out of range raises IndexError
At(ls, idx) == IF idx >= 0 /\ idx < Len(ls) THEN ls[idx + 1] ELSE IndexError

InnerTestUnbounded(ls, idx) ==
  IF At(ls, idx) = IndexError THEN "raise"
  ELSE IF Strip(At(ls, idx)) # FenceClose THEN "loop" ELSE "exit"

\* while i < len(lines) and lines[i].strip() != '```'
InnerTest(ls, idx) ==
  IF ~(idx < Len(ls)) THEN "exit"
  ELSE IF At(ls, idx) = IndexError THEN "raise"
  ELSE IF Strip(At(ls, idx)) # FenceClose THEN "loop" ELSE "exit"

\* while i < len(lines): ... falls through to `return new_lines`
RunReturn ==
  /\ pc = "outer"
  /\ ~(i < Len(lines))
  /\ pc' = "convert"
  /\ UNCHANGED <<lines, i, new_lines, chart_lines, hasStore, chart_configs,
                 issued, text, html>>
  /\ UNCHANGED sideVars

\* if line.strip() == '```chart': chart_lines = []; i += 1
OuterOpen ==
  /\ pc = "outer"
  /\ i < Len(lines)
  /\ Strip(At(lines, i)) = FenceOpen
  /\ chart_lines' = <<>>
  /\ i' = i + 1
  /\ pc' = "inner"
  /\ UNCHANGED <<lines, new_lines, hasStore, chart_configs, issued, text, html>>
  /\ UNCHANGED sideVars

\* a copy that trims the line it keeps
OuterCopyStripped ==
  /\ pc = "outer"
  /\ i < Len(lines)
  /\ Strip(At(lines, i)) # FenceOpen
  /\ new_lines' = Append(new_lines, Strip(At(lines, i)))
  /\ i' = i + 1
  /\ UNCHANGED <<lines, chart_lines, hasStore, chart_configs, issued, pc, text, html>>
  /\ UNCHANGED sideVars

\* else: new_lines.append(line); i += 1
OuterCopy ==
  /\ pc = "outer"
  /\ i < Len(lines)
  /\ Strip(At(lines, i)) # FenceOpen
  /\ new_lines' = Append(new_lines, At(lines, i))
  /\ i' = i + 1
  /\ UNCHANGED <<lines, chart_lines, hasStore, chart_configs, issued, pc, text, html>>
  /\ UNCHANGED sideVars

\* the inner loop's body: chart_lines.append(lines[i]); i += 1
InnerLoop ==
  /\ pc = "inner"
  /\ InnerTest(lines, i) = "loop"
  /\ chart_lines' = Append(chart_lines, At(lines, i))
  /\ i' = i + 1
  /\ UNCHANGED <<lines, new_lines, hasStore, chart_configs, issued, pc, text, html>>
  /\ UNCHANGED sideVars

\* the inner loop ends (or its test raises)
InnerExit ==
  /\ pc = "inner"
  /\ InnerTest(lines, i) # "loop"
  /\ pc' = IF InnerTest(lines, i) = "raise" THEN "index_error" ELSE "parse"
  /\ UNCHANGED <<lines, i, new_lines, chart_lines, hasStore, chart_configs,
                 issued, text, html>>
  /\ UNCHANGED sideVars

Put(f, k, x) == [y \in DOMAIN f \cup {k} |-> IF y = k THEN x ELSE f[y]]

\* an empty body decoded and stored like any other (safe_load('') is None)
ParseEmptyStores ==
  /\ pc = "parse"
  /\ chart_lines = <<>>
  /\ \E chart_id \in Ids :
       /\ hasStore' = TRUE
       /\ chart_configs' = Put(chart_configs, chart_id, Null)
       /\ issued' = Append(issued, chart_id)
       /\ new_lines' = Append(new_lines, PlaceholderLine(chart_id))
  /\ i' = i + 1
  /\ pc' = "outer"
  /\ UNCHANGED <<lines, chart_lines, text, html>>
  /\ UNCHANGED sideVars

\* if chart_lines: (empty body) nothing; then i += 1
ParseEmpty ==
  /\ pc = "parse"
  /\ chart_lines = <<>>
  /\ i' = i + 1
  /\ pc' = "outer"
  /\ UNCHANGED <<lines, new_lines, chart_lines, hasStore, chart_configs,
                 issued, text, html>>
  /\ UNCHANGED sideVars

\* a store made anew for every block: self.md.chart_configs = {} without the test
ParseStoreResets ==
  /\ pc = "parse"
  /\ chart_lines # <<>>
  /\ YamlLoad(chart_lines).ok
  /\ \E chart_id \in Ids :
       /\ hasStore' = TRUE
       /\ chart_configs' = Put(EmptyDict, chart_id, YamlLoad(chart_lines).value)
       /\ issued' = Append(issued, chart_id)
       /\ new_lines' = Append(new_lines, PlaceholderLine(chart_id))
  /\ i' = i + 1
  /\ pc' = "outer"
  /\ UNCHANGED <<lines, chart_lines, text, html>>
  /\ UNCHANGED sideVars

\* try: safe_load succeeds; chart_id from uuid4, any of the identifiers; the
\* store is created when the context has none, and kept when it has one
ParseStore ==
  /\ pc = "parse"
  /\ chart_lines # <<>>
  /\ YamlLoad(chart_lines).ok
  /\ \E chart_id \in Ids :
       /\ hasStore' = TRUE
       /\ chart_configs' = Put(IF hasStore THEN chart_configs ELSE EmptyDict,
                               chart_id, YamlLoad(chart_lines).value)
       /\ issued' = Append(issued, chart_id)
       /\ new_lines' = Append(new_lines, PlaceholderLine(chart_id))
  /\ i' = i + 1
  /\ pc' = "outer"
  /\ UNCHANGED <<lines, chart_lines, text, html>>
  /\ UNCHANGED sideVars

\* the store created before the body is decoded
ParseErrorCreatesStore ==
  /\ pc = "parse"
  /\ chart_lines # <<>>
  /\ ~YamlLoad(chart_lines).ok
  /\ hasStore' = TRUE
  /\ new_lines' = Append(new_lines, ErrorLine(YamlLoad(chart_lines).err))
  /\ i' = i + 1
  /\ pc' = "outer"
  /\ UNCHANGED <<lines, chart_lines, chart_configs, issued, text, html>>
  /\ UNCHANGED sideVars

\* except yaml.YAMLError as e
ParseError ==
  /\ pc = "parse"
  /\ chart_lines # <<>>
  /\ ~YamlLoad(chart_lines).ok
  /\ new_lines' = Append(new_lines, ErrorLine(YamlLoad(chart_lines).err))
  /\ i' = i + 1
  /\ pc' = "outer"
  /\ UNCHANGED <<lines, chart_lines, hasStore, chart_configs, issued, text, html>>
  /\ UNCHANGED sideVars

(***************************************************************************)
(* ChartPostprocessor._deep_merge                                          *)
(***************************************************************************)
\* a merge of the top level only, as dict.update does
ShallowMerge(d1, d2) ==
  Map([k \in DOMAIN d1.m \cup DOMAIN d2.m |->
         IF k \in DOMAIN d2.m THEN d2.m[k] ELSE d1.m[k]])

RECURSIVE MergeOntoEmpty(_, _)

\* a merge whose result starts empty instead of as a copy of dict1
MergeOntoEmpty(d1, d2) ==
  LET RECURSIVE Loop(_, _)
      Loop(res, keys) ==
        IF keys = {} THEN res
        ELSE LET key == CHOOSE k \in keys : TRUE
                 value == d2.m[key]
                 merged == IF key \in DOMAIN res /\ IsDict(res[key]) /\ IsDict(value)
                             THEN MergeOntoEmpty(res[key], value)
                             ELSE value
             IN  Loop(Put(res, key, merged), keys \ {key})
  IN  Map(Loop(EmptyDict, DOMAIN d2.m))

RECURSIVE DeepMerge(_, _)

\* result = dict1.copy(); for key, value in dict2.items(): ...; return result
DeepMerge(d1, d2) ==
  LET RECURSIVE Loop(_, _)
      Loop(res, keys) ==
        IF keys = {} THEN res
        ELSE LET key == CHOOSE k \in keys : TRUE
                 value == d2.m[key]
                 merged == IF key \in DOMAIN res /\ IsDict(res[key]) /\ IsDict(value)
                             THEN DeepMerge(res[key], value)
                             ELSE value
             IN  Loop(Put(res, key, merged), keys \ {key})
  IN  Map(Loop(d1.m, DOMAIN d2.m))

(***************************************************************************)
(* _deep_merge on objects.  The heap is a sequence of dict objects; an     *)
(* object maps each key to a cell, and a cell either refers to another     *)
(* dict (ref is its address) or holds a value that is no dict (ref = 0).   *)
(***************************************************************************)
RefCell(a) == [ref |-> a, val |-> Null]

ValCell(x) == [ref |-> 0, val |-> x]

RECURSIVE Alloc(_, _)

\* the objects of a decoded mapping d, placed after those of h; r is d's address
Alloc(h, d) ==
  LET RECURSIVE Fill(_, _, _)
      Fill(hh, obj, keys) ==
        IF keys = {} THEN [h |-> Append(hh, obj), r |-> Len(hh) + 1]
        ELSE LET key == CHOOSE k \in keys : TRUE
             IN  IF IsDict(d.m[key])
                   THEN LET sub == Alloc(hh, d.m[key])
                        IN  Fill(sub.h, Put(obj, key, RefCell(sub.r)), keys \ {key})
                   ELSE Fill(hh, Put(obj, key, ValCell(d.m[key])), keys \ {key})
  IN  Fill(h, EmptyDict, DOMAIN d.m)

RECURSIVE Deref(_, _)

\* the mapping that the object at address a holds
Deref(h, a) ==
  Map([k \in DOMAIN h[a] |->
         IF h[a][k].ref # 0 THEN Deref(h, h[a][k].ref) ELSE h[a][k].val])

RECURSIVE DeepMergeInPlace(_, _, _)

\* a merge that writes into dict1 itself: result = dict1
DeepMergeInPlace(h, a1, a2) ==
  LET RECURSIVE Loop(_, _)
      Loop(hh, keys) ==
        IF keys = {} THEN [h |-> hh, r |-> a1]
        ELSE LET key == CHOOSE k \in keys : TRUE
                 value == hh[a2][key]
             IN  IF key \in DOMAIN hh[a1] /\ hh[a1][key].ref # 0 /\ value.ref # 0
                   THEN LET sub == DeepMergeInPlace(hh, hh[a1][key].ref, value.ref)
                        IN  Loop([sub.h EXCEPT ![a1] = Put(@, key, RefCell(sub.r))],
                                 keys \ {key})
                   ELSE Loop([hh EXCEPT ![a1] = Put(@, key, value)], keys \ {key})
  IN  Loop(h, DOMAIN h[a2])

RECURSIVE DeepMergeHeap(_, _, _)

\* result = dict1.copy() is a new object with dict1's cells; result[key] = ...
\* writes into that object only; the recursive call works on its own copy
DeepMergeHeap(h, a1, a2) ==
  LET r == Len(h) + 1
      RECURSIVE Loop(_, _)
      Loop(hh, keys) ==
        IF keys = {} THEN [h |-> hh, r |-> r]
        ELSE LET key == CHOOSE k \in keys : TRUE
                 value == hh[a2][key]
             IN  IF key \in DOMAIN hh[r] /\ hh[r][key].ref # 0 /\ value.ref # 0
                   THEN LET sub == DeepMergeHeap(hh, hh[r][key].ref, value.ref)
                        IN  Loop([sub.h EXCEPT ![r] = Put(@, key, RefCell(sub.r))],
                                 keys \ {key})
                   ELSE Loop([hh EXCEPT ![r] = Put(@, key, value)], keys \ {key})
  IN  Loop(Append(h, h[a1]), DOMAIN h[a2])

(***************************************************************************)
(* ChartPostprocessor._generate_chart_html                                 *)
(***************************************************************************)
TickCallback ==
  "function(value) { return typeof value === \"number\" ? value.toLocaleString() : value; }"

\* a lookup that leaves the configuration aside
GetDefault(config, key, default) == default

\* config.get(key, default)
Get(config, key, default) == IF key \in DOMAIN config.m THEN config.m[key] ELSE default

DefaultOptions(title) ==
  Map([responsive |-> Bool("true"),
       maintainAspectRatio |-> Bool("false"),
       plugins |-> Map([title |-> Map([display |-> Bool("true"),
                                       text |-> title,
                                       font |-> Map([size |-> Num("16"),
                                                     weight |-> Str("bold")])]),
                        legend |-> Map([display |-> Bool("true"),
                                        position |-> Str("top")])]),
       scales |-> Map([y |-> Map([beginAtZero |-> Bool("true"),
                                  ticks |-> Map([callback |-> Str(TickCallback)])])])])

\* the strings the pattern "function\(([^)]*)\)\s*{\s*([^}]+)\s*}" matches once quoted
FunctionLiterals == {TickCallback, "function(value) { return value; }"}

RECURSIVE Serialize(_)

\* json.dumps(chart_config, indent=2), then re.sub of the quoted function literals:
\* which strings lose their quotes; the text they come out as is ConfigJson's
Serialize(x) ==
  IF x.t = "str" /\ x.v \in FunctionLiterals THEN [t |-> "js", v |-> x.v, m |-> EmptyDict]
  ELSE [t |-> x.t, v |-> x.v, m |-> [k \in DOMAIN x.m |-> Serialize(x.m[k])]]

NoWidget == [canvasId |-> "", width |-> Null, height |-> Null, lookupId |-> "", spec |-> Null]

Fragment(p, c, a, widget) == [pad |-> p, core |-> c, arg |-> a, w |-> widget]

\* a line of the extractor's output as it stands in the converted text
AsFragment(line) == Fragment(line.pad, line.core, line.arg, NoWidget)

Raise == [raised |-> TRUE, out |-> Fragment(0, "AttributeError", "", NoWidget)]

\* config.get raises on a value that is no mapping, and so does options.items()
GenerateChartHtml(chart_id, config) ==
  IF ~IsDict(config) THEN Raise
  ELSE LET chart_type == Get(config, "type", Str("bar"))
           title == Get(config, "title", Str("Chart"))
           width == Get(config, "width", Num("800"))
           height == Get(config, "height", Num("400"))
           data == Get(config, "data", Map(EmptyDict))
           options == Get(config, "options", Map(EmptyDict))
       IN  IF ~IsDict(options) THEN Raise
           ELSE LET merged_options == DeepMerge(DefaultOptions(title), options)
                    chart_config == Map([type |-> chart_type, data |-> data,
                                         options |-> merged_options])
                IN  [raised |-> FALSE,
                     out |-> Fragment(0, "chart-container", "",
                               [canvasId |-> chart_id, width |-> width,
                                height |-> height, lookupId |-> chart_id,
                                spec |-> Serialize(chart_config)])]

(***************************************************************************)
(* ChartPostprocessor.run                                                  *)
(***************************************************************************)
\* <div class="chart-placeholder" data-chart-id="([^"]+)"></div>
MatchesPlaceholder(frag) == frag.core = "chart-placeholder" /\ frag.arg # ""

\* replace_chart(match); the text around the match stays
ReplaceChart(frag, configs) ==
  IF frag.arg \in DOMAIN configs
    THEN LET g == GenerateChartHtml(frag.arg, configs[frag.arg])
         IN  [raised |-> g.raised, out |-> [g.out EXCEPT !.pad = frag.pad]]
    ELSE [raised |-> FALSE, out |-> frag]

\* run(text): re.sub over the whole text, one pass
Run(txt, has, configs) ==
  IF ~has THEN [raised |-> FALSE, out |-> txt]
  ELSE LET sub == [k \in 1..Len(txt) |->
                     IF MatchesPlaceholder(txt[k]) THEN ReplaceChart(txt[k], configs)
                     ELSE [raised |-> FALSE, out |-> txt[k]]]
       IN  [raised |-> \E k \in 1..Len(txt) : sub[k].raised,
            out |-> [k \in 1..Len(txt) |-> sub[k].out]]

\* md.convert between the two passes: the preprocessor's lines become the text
Convert ==
  /\ pc = "convert"
  /\ text' = [k \in 1..Len(new_lines) |-> AsFragment(new_lines[k])]
  /\ pc' = "post"
  /\ UNCHANGED <<lines, i, new_lines, chart_lines, hasStore, chart_configs, issued, html>>
  /\ UNCHANGED sideVars

\* a renderer that takes out of the store the entries it has rendered
PostRunConsumes ==
  /\ pc = "post"
  /\ LET r == Run(text, hasStore, chart_configs)
         used == {text[k].arg : k \in {n \in 1..Len(text) : MatchesPlaceholder(text[n])}}
     IN  /\ IF r.raised THEN pc' = "raised" /\ html' = html
            ELSE pc' = "done" /\ html' = r.out
         /\ chart_configs' = [id \in DOMAIN chart_configs \ used |-> chart_configs[id]]
  /\ UNCHANGED <<lines, i, new_lines, chart_lines, hasStore, issued, text>>
  /\ UNCHANGED sideVars

PostRun ==
  /\ pc = "post"
  /\ LET r == Run(text, hasStore, chart_configs)
     IN  IF r.raised THEN pc' = "raised" /\ html' = html
         ELSE pc' = "done" /\ html' = r.out
  /\ UNCHANGED <<lines, i, new_lines, chart_lines, hasStore, chart_configs, issued, text>>
  /\ UNCHANGED sideVars

(***************************************************************************)
(* The conversion of one document on a fresh Markdown instance             *)
(***************************************************************************)
Init ==
  /\ lines \in Inputs
  /\ i = 0
  /\ new_lines = <<>>
  /\ chart_lines = <<>>
  /\ hasStore = FALSE
  /\ chart_configs = EmptyDict
  /\ issued = <<>>
  /\ pc = "outer"
  /\ text = <<>>
  /\ html = <<>>
  /\ doc = 1
  /\ AllIdleBut("pipe")

Next ==
  \/ OuterOpen
  \/ OuterCopy
  \/ InnerLoop
  \/ InnerExit
  \/ ParseEmpty
  \/ ParseStore
  \/ ParseError
  \/ RunReturn
  \/ Convert
  \/ PostRun

Spec == Init /\ [][Next]_vars

(***************************************************************************)
(* _deep_merge called on two nested mappings                               *)
(***************************************************************************)
ScalarPool == <<"x", "y", "z", "u">>

Scalars == {Str(ScalarPool[k]) : k \in 1..NumScalars}

Keys == {"a", "b"}

MapsOver(V) == {Map(f) : f \in UNION {[S -> V] : S \in SUBSET Keys}}

Level1 == MapsOver(Scalars)

Level2 == MapsOver(Scalars \cup Level1)

\* the two arguments are separate objects, or one object passed twice
MergeInit ==
  /\ dict1 \in Level2 \cup {DefaultOptions(Str("Chart"))}
  /\ dict2 \in Level2 \cup {NestedOverride, DefaultOptions(Str("Chart"))}
  /\ result = Null
  /\ mpc = "call"
  /\ ret = 0
  /\ LET o1 == Alloc(<<>>, dict1)
         o2 == Alloc(o1.h, dict2)
     IN  \/ heap = o2.h /\ ref1 = o1.r /\ ref2 = o2.r
         \/ dict1 = dict2 /\ heap = o1.h /\ ref1 = o1.r /\ ref2 = o1.r
  /\ AllIdleBut("merge")

\* the call, seen as values (result) and as objects (heap, ret)
MergeCall ==
  /\ mpc = "call"
  /\ result' = DeepMerge(dict1, dict2)
  /\ LET o == DeepMergeHeap(heap, ref1, ref2)
     IN  heap' = o.h /\ ret' = o.r
  /\ mpc' = "returned"
  /\ UNCHANGED <<dict1, dict2, ref1, ref2>>
  /\ UNCHANGED exceptMerge

MergeNext == MergeCall

MergeSpec == MergeInit /\ [][MergeNext]_vars

(***************************************************************************)
(* What the extractor is to produce, read off the input as a whole: the    *)
(* input is cut into ordinary lines and chart blocks, and each piece says  *)
(* what stands in the output for it.                                       *)
(***************************************************************************)
IsOpenerLine(l) == l.core = "<fence>chart"

IsCloserLine(l) == l.core = "<fence>"

\* the closer of the block opened at k, or Len(ls) + 1 when there is none
CloserAfter(ls, k) ==
  LET closers == {j \in (k + 1)..Len(ls) : IsCloserLine(ls[j])}
  IN  IF closers = {} THEN Len(ls) + 1
      ELSE CHOOSE j \in closers : \A h \in closers : j <= h

RECURSIVE Segments(_, _)

Segments(ls, k) ==
  IF k > Len(ls) THEN <<>>
  ELSE IF IsOpenerLine(ls[k])
    THEN <<[kind |-> "block", from |-> k, to |-> CloserAfter(ls, k),
            closed |-> CloserAfter(ls, k) <= Len(ls)]>>
         \o Segments(ls, CloserAfter(ls, k) + 1)
  ELSE <<[kind |-> "line", from |-> k, to |-> k, closed |-> FALSE]>>
       \o Segments(ls, k + 1)

BlocksOf(ls) ==
  {s \in {Segments(ls, 1)[n] : n \in 1..Len(Segments(ls, 1))} : s.kind = "block"}

BodyOf(ls, s) == SubSeq(ls, s.from + 1, s.to - 1)

Decodable(ls, s) == BodyOf(ls, s) # <<>> /\ YamlLoad(BodyOf(ls, s)).ok

WellFormed(ls, s) == s.closed /\ Decodable(ls, s)

Undecodable(ls, s) == BodyOf(ls, s) # <<>> /\ ~YamlLoad(BodyOf(ls, s)).ok

ExpectedFor(ls, s) ==
  IF s.kind = "line" THEN <<[kind |-> "verbatim", line |-> ls[s.from]]>>
  ELSE IF BodyOf(ls, s) = <<>> THEN <<>>
  ELSE IF YamlLoad(BodyOf(ls, s)).ok THEN <<[kind |-> "placeholder", line |-> FenceOpen]>>
  ELSE <<[kind |-> "error", line |-> ErrorLine(YamlLoad(BodyOf(ls, s)).err)]>>

RECURSIVE Flatten(_, _, _)

Flatten(ls, segs, n) ==
  IF n > Len(segs) THEN <<>> ELSE ExpectedFor(ls, segs[n]) \o Flatten(ls, segs, n + 1)

Expected(ls) == Flatten(ls, Segments(ls, 1), 1)

IsPlaceholderLine(l) == l.pad = 0 /\ l.core = "chart-placeholder" /\ l.arg \in Ids

MatchesItem(l, item) ==
  IF item.kind = "verbatim" THEN l = item.line
  ELSE IF item.kind = "placeholder" THEN IsPlaceholderLine(l)
  ELSE l = item.line

Matches(out, exp) ==
  /\ Len(out) = Len(exp)
  /\ \A k \in 1..Len(exp) : MatchesItem(out[k], exp[k])

Returned == pc = "convert"

(***************************************************************************)
(* C1: when run returns, its output is the input with every well-formed    *)
(* chart block replaced by one placeholder line at the block's place and   *)
(* every line outside a chart block kept verbatim and in order, nothing    *)
(* added and nothing dropped.                                              *)
(***************************************************************************)
C1_ExtractorContract == Returned => Matches(new_lines, Expected(lines))

C1_Witness ==
  /\ Returned
  /\ \E s \in BlocksOf(lines) :
       /\ WellFormed(lines, s)
       /\ s.from > 1
       /\ s.to < Len(lines)
       /\ ~IsOpenerLine(lines[1])
       /\ new_lines[Len(new_lines)] = lines[Len(lines)]

PlaceholderAt(out) == {k \in 1..Len(out) : IsPlaceholderLine(out[k])}

PlaceholderIds(out) == {out[k].arg : k \in PlaceholderAt(out)}

HasLiteralPlaceholder(ls) == \E k \in 1..Len(ls) : ls[k].core = "chart-placeholder"

(***************************************************************************)
(* C2: after the extractor pass on a fresh context there are as many       *)
(* placeholder lines as chart blocks with a decodable body, the store's    *)
(* keys are the identifiers the placeholders carry, and the store has as   *)
(* many entries as there are placeholders.  (Documents that already hold a *)
(* placeholder line of their own are left aside.)                          *)
(***************************************************************************)
C2_OneEntryPerPlaceholder ==
  (Returned /\ ~HasLiteralPlaceholder(lines)) =>
    /\ Cardinality(PlaceholderAt(new_lines))
         = Cardinality({s \in BlocksOf(lines) : Decodable(lines, s)})
    /\ DOMAIN chart_configs = PlaceholderIds(new_lines)
    /\ Cardinality(DOMAIN chart_configs) = Cardinality(PlaceholderAt(new_lines))

(***************************************************************************)
(* C3: the identifiers generated within one document are pairwise          *)
(* distinct, and storing a block's configuration never overwrites the      *)
(* entry of an earlier block.                                              *)
(***************************************************************************)
C3_IdentifiersDistinct ==
  /\ \A j, k \in 1..Len(issued) : j # k => issued[j] # issued[k]
  /\ Cardinality(DOMAIN chart_configs) = Len(issued)

(***************************************************************************)
(* C4: a body that fails to decode puts one chart-error line carrying the  *)
(* failure message in the block's place, leaves the store as it was (not   *)
(* even created), and the lines after the block, later chart blocks        *)
(* included, are processed as usual.                                       *)
(***************************************************************************)
C4_DecodeFailureIsLocal ==
  /\ [][(pc = "parse" /\ chart_lines # <<>> /\ ~YamlLoad(chart_lines).ok) =>
          /\ new_lines' = Append(new_lines, ErrorLine(YamlLoad(chart_lines).err))
          /\ chart_configs' = chart_configs
          /\ hasStore' = hasStore
          /\ issued' = issued
          /\ i' = i + 1
          /\ pc' = "outer"]_vars
  /\ []((Returned /\ \E s \in BlocksOf(lines) : Undecodable(lines, s)) =>
          Matches(new_lines, Expected(lines)))

C4_Witness ==
  /\ Returned
  /\ \E s1, s2 \in BlocksOf(lines) :
       /\ Undecodable(lines, s1)
       /\ s1.to < s2.from
       /\ Decodable(lines, s2)
  /\ Len(issued) = 1
  /\ \E k \in 1..Len(new_lines) : new_lines[k].core = "chart-error"

Running == {"outer", "inner", "parse"}

\* decreases with every step of run
Measure ==
  3 * (Len(lines) + 1 - i) + (IF pc = "inner" THEN 2 ELSE IF pc = "parse" THEN 1 ELSE 0)

(***************************************************************************)
(* C5: the extractor terminates on every input and never reads a line out  *)
(* of range; with an opener that has no closer, all the lines after the    *)
(* opener are the block's body and none of them is copied to the output.   *)
(***************************************************************************)
C5_Terminates ==
  /\ [](pc # "index_error")
  /\ [](pc \in Running => (i <= Len(lines) + 1 /\ Measure >= 0 /\ ENABLED Next))
  /\ [][(pc \in Running /\ pc' \in Running) => Measure' < Measure]_vars
  /\ []((Returned /\ \E s \in BlocksOf(lines) : ~s.closed) =>
          Matches(new_lines, Expected(lines)))

C5_Witness ==
  /\ Returned
  /\ \E s \in BlocksOf(lines) :
       /\ ~s.closed
       /\ s.from > 1
       /\ s.from + 1 < Len(lines)
       /\ ~IsOpenerLine(lines[1])
       /\ Len(new_lines) <= s.from

OnlyOpenerAt(ls, k) == \A j \in 1..Len(ls) : IsOpenerLine(ls[j]) <=> j = k

(***************************************************************************)
(* C6: a chart block with an empty body leaves no line in the output and   *)
(* does not touch the store; the lines around it come out unchanged.       *)
(***************************************************************************)
C6_EmptyBlockVanishes ==
  /\ [][(pc = "parse" /\ chart_lines = <<>>) =>
          /\ new_lines' = new_lines
          /\ chart_configs' = chart_configs
          /\ hasStore' = hasStore
          /\ issued' = issued]_vars
  /\ [](Returned =>
          \A k \in 1..(Len(lines) - 1) :
            (OnlyOpenerAt(lines, k) /\ IsCloserLine(lines[k + 1])) =>
              /\ new_lines = SubSeq(lines, 1, k - 1) \o SubSeq(lines, k + 2, Len(lines))
              /\ ~hasStore)
  /\ []((Returned /\ \E s \in BlocksOf(lines) : BodyOf(lines, s) = <<>>) =>
          Matches(new_lines, Expected(lines)))

C6_Witness ==
  /\ Returned
  /\ \E k \in 2..(Len(lines) - 2) :
       /\ OnlyOpenerAt(lines, k)
       /\ IsCloserLine(lines[k + 1])
  /\ Len(new_lines) = Len(lines) - 2

Finished == pc \in {"done", "raised"}

Resolvable(frag) ==
  hasStore /\ MatchesPlaceholder(frag) /\ frag.arg \in DOMAIN chart_configs

(***************************************************************************)
(* C7: the renderer returns the text with every placeholder whose          *)
(* identifier is in the store replaced by the widget made from that        *)
(* identifier's own configuration, every other placeholder and all other   *)
(* text unchanged, and it does not raise.                                  *)
(***************************************************************************)
C7_RendererContract ==
  Finished =>
    /\ pc = "done"
    /\ Len(html) = Len(text)
    /\ \A k \in 1..Len(text) :
         IF Resolvable(text[k])
           THEN /\ html[k].core = "chart-container"
                /\ html[k].pad = text[k].pad
                /\ html[k].w = GenerateChartHtml(text[k].arg, chart_configs[text[k].arg]).out.w
           ELSE html[k] = text[k]

IssuedIds == {issued[k] : k \in 1..Len(issued)}

(***************************************************************************)
(* C8: extractor then renderer on a document with a well-formed chart      *)
(* block yields markup where, for every identifier the extractor           *)
(* generated, a canvas carries that identifier, the init script looks the  *)
(* canvas up by the same identifier, and no placeholder for it remains.    *)
(***************************************************************************)
C8_RoundTrip ==
  (Finished /\ \E s \in BlocksOf(lines) : WellFormed(lines, s)) =>
    /\ pc = "done"
    /\ \A id \in IssuedIds :
         /\ \E k \in 1..Len(html) :
              /\ html[k].core = "chart-container"
              /\ html[k].w.canvasId = id
              /\ html[k].w.lookupId = id
         /\ \A k \in 1..Len(html) :
              ~(html[k].core = "chart-placeholder" /\ html[k].arg = id)

(***************************************************************************)
(* C9: whatever the chart block bodies decode to, the extractor pass and   *)
(* the renderer pass complete without raising.                             *)
(***************************************************************************)
C9_NoFatalError == pc \notin {"index_error", "raised"}

RECURSIVE IsReferenceMerge(_, _, _)

IsReferenceMerge(r, base, overlay) ==
  /\ IsDict(r)
  /\ DOMAIN r.m = DOMAIN base.m \cup DOMAIN overlay.m
  /\ \A k \in DOMAIN r.m :
       IF k \notin DOMAIN overlay.m THEN r.m[k] = base.m[k]
       ELSE IF k \notin DOMAIN base.m THEN r.m[k] = overlay.m[k]
       ELSE IF IsDict(base.m[k]) /\ IsDict(overlay.m[k])
         THEN IsReferenceMerge(r.m[k], base.m[k], overlay.m[k])
       ELSE r.m[k] = overlay.m[k]

NestedOverrideKeepsSiblings ==
  (dict1 = DefaultOptions(Str("Chart")) /\ dict2 = NestedOverride) =>
    /\ result.m.scales.m.y.m.beginAtZero = Bool("false")
    /\ result.m.scales.m.y.m.ticks = dict1.m.scales.m.y.m.ticks
    /\ DOMAIN result.m.scales.m.y.m = DOMAIN dict1.m.scales.m.y.m
    /\ DOMAIN result.m.scales.m = DOMAIN dict1.m.scales.m
    /\ result.m.plugins = dict1.m.plugins
    /\ result.m.responsive = dict1.m.responsive
    /\ result.m.maintainAspectRatio = dict1.m.maintainAspectRatio
    /\ DOMAIN result.m = DOMAIN dict1.m

(***************************************************************************)
(* C10: _deep_merge(base, overlay) is the reference deep merge: its keys   *)
(* are the union of both key sets; a key of base alone keeps base's value, *)
(* a key of overlay alone takes overlay's; a key of both whose values are  *)
(* both mappings holds their merge, and otherwise overlay's value.         *)
(* Overriding scales.y.beginAtZero in the default options loses no         *)
(* sibling key at any level.                                               *)
(***************************************************************************)
C10_DeepMergeIsReference ==
  mpc = "returned" =>
    /\ IsReferenceMerge(result, dict1, dict2)
    /\ NestedOverrideKeepsSiblings

C10_Witness ==
  /\ mpc = "returned"
  /\ \E k \in DOMAIN dict1.m \cap DOMAIN dict2.m :
       /\ IsDict(dict1.m[k])
       /\ IsDict(dict2.m[k])
       /\ \E a \in DOMAIN dict1.m[k].m \ DOMAIN dict2.m[k].m :
            result.m[k].m[a] = dict1.m[k].m[a]
       /\ \E b \in DOMAIN dict1.m[k].m \cap DOMAIN dict2.m[k].m :
            /\ dict1.m[k].m[b] # dict2.m[k].m[b]
            /\ result.m[k].m[b] = dict2.m[k].m[b]

(***************************************************************************)
(* C11: for every nested mapping D, _deep_merge(D, {}) is D and            *)
(* _deep_merge(D, D) is D.                                                 *)
(***************************************************************************)
C11_MergeIdentities ==
  mpc = "returned" =>
    /\ dict2 = Map(EmptyDict) => result = dict1
    /\ dict2 = dict1 => result = dict1

C11_Witness ==
  /\ mpc = "returned"
  /\ dict2 = dict1
  /\ \E k \in DOMAIN dict1.m : IsDict(dict1.m[k]) /\ dict1.m[k].m # EmptyDict
  /\ result = dict1

\* the objects that exist before the call hold after it what they held before
ArgumentsKept == \A a \in 1..Len(heap) : heap'[a] = heap[a]

(***************************************************************************)
(* C12: _deep_merge changes neither of its arguments: every dict object    *)
(* that exists when it is called, the nested ones included, holds the same *)
(* cells when it returns, so dict1 and dict2 still read as they did; what  *)
(* it returns is another object than dict1 and dict2.                      *)
(***************************************************************************)
C12_ArgumentsNotMutated ==
  /\ [][mpc = "call" => ArgumentsKept]_vars
  /\ [](mpc = "returned" =>
         /\ Deref(heap, ref1) = dict1
         /\ Deref(heap, ref2) = dict2
         /\ Deref(heap, ret) = result
         /\ ret \notin {ref1, ref2})

C12_Witness ==
  /\ mpc = "returned"
  /\ ref1 # ref2
  /\ \E k \in DOMAIN dict1.m \cap DOMAIN dict2.m :
       /\ IsDict(dict1.m[k])
       /\ IsDict(dict2.m[k])
       /\ result.m[k] # dict1.m[k]
       /\ Deref(heap, heap[ref1][k].ref) = dict1.m[k]
       /\ heap[ret][k].ref \notin {heap[ref1][k].ref, heap[ref2][k].ref}

(***************************************************************************)
(* _generate_chart_html, lines 129-137: config_json = json.dumps(...) and  *)
(* the re.sub that takes the quotes off function literals.  A string is a  *)
(* sequence of tokens: the pattern tells apart "function(", ")", "{", "}", *)
(* the double quote and white space; any other token is a run of           *)
(* characters with none of these at either end.                            *)
(***************************************************************************)
MaxTokens == 5

FN == "function("

RP == ")"

LB == "{"

RB == "}"

SP == " "

DQ == "\""

BS == "\\"

\* "function(value) { return value; }"
ReturnValue == <<FN, "value", RP, SP, LB, SP, "return value;", SP, RB>>

\* the default callback of default_options (line 113)
TickTokens ==
  <<FN, "value", RP, SP, LB, SP, "return typeof value === ", DQ, "number", DQ,
    " ? value.toLocaleString(", RP, " : value;", SP, RB>>

Tokenize(s) ==
  IF s = TickCallback THEN TickTokens
  ELSE IF s = "function(value) { return value; }" THEN ReturnValue
  ELSE <<s>>

RECURSIVE Escape(_)

\* json.dumps writes a double quote as \" and a backslash as \\
Escape(v) ==
  IF v = <<>> THEN <<>>
  ELSE (IF Head(v) \in {DQ, BS} THEN <<BS, Head(v)>> ELSE <<Head(v)>>) \o Escape(Tail(v))

\* json.dumps of a string
JsonDumps(v) == <<DQ>> \o Escape(v) \o <<DQ>>

Tok(t, p) == IF p \in 1..Len(t) THEN t[p] ELSE ""

RECURSIVE FirstAt(_, _, _)

\* the first position from p on that holds tok, 0 when there is none
FirstAt(t, p, tok) ==
  IF p > Len(t) THEN 0
  ELSE IF t[p] = tok THEN p
  ELSE FirstAt(t, p + 1, tok)

RECURSIVE SkipSpace(_, _)

\* \s* from p on: the first position that holds no white space
SkipSpace(t, p) == IF Tok(t, p) = SP THEN SkipSpace(t, p + 1) ELSE p

NoMatch == [ok |-> FALSE, end |-> 0, params |-> <<>>, body |-> <<>>]

\* "function\(([^)]*)\)\s*{\s*([^}]+)\s*}" tried at position p.  [^)]* ends
\* at the first ")", [^}]+ runs to the first "}" and takes at least one
\* character, which it gets back from the \s* before it when nothing else is
\* left; the "}" must be followed by the closing quote.
MatchAt(t, p) ==
  LET rp == FirstAt(t, p + 2, RP)
      lb == SkipSpace(t, rp + 1)
      s2 == SkipSpace(t, lb + 1)
      rb == FirstAt(t, s2, RB)
      from == IF rb = s2 /\ s2 > lb + 1 THEN s2 - 1 ELSE s2
  IN  IF /\ Tok(t, p) = DQ
         /\ Tok(t, p + 1) = FN
         /\ rp # 0
         /\ Tok(t, lb) = LB
         /\ rb # 0
         /\ from < rb
         /\ Tok(t, rb + 1) = DQ
        THEN [ok |-> TRUE, end |-> rb + 1,
              params |-> SubSeq(t, p + 2, rp - 1), body |-> SubSeq(t, from, rb - 1)]
        ELSE NoMatch

RECURSIVE ReSub(_, _)

\* re.sub(pattern, r'function(\1) { \2 }', config_json) from position p on
ReSub(t, p) ==
  IF p > Len(t) THEN <<>>
  ELSE LET m == MatchAt(t, p)
       IN  IF m.ok
             THEN <<FN>> \o m.params \o <<RP, SP, LB, SP>> \o m.body \o <<SP, RB>>
                    \o ReSub(t, m.end + 1)
             ELSE <<t[p]>> \o ReSub(t, p + 1)

\* config_json for a string value
ConfigJson(v) == ReSub(JsonDumps(v), 1)

TokenAlphabet == {FN, "value", RP, SP, LB, RB, DQ}

TokenSeqs == UNION {[1..n -> TokenAlphabet] : n \in 0..MaxTokens}

UnquoteInit ==
  /\ literal \in TokenSeqs \cup {ReturnValue, TickTokens}
  /\ emitted = <<>>
  /\ upc = "dump"
  /\ AllIdleBut("unquote")

Dump ==
  /\ upc = "dump"
  /\ emitted' = ConfigJson(literal)
  /\ upc' = "dumped"
  /\ UNCHANGED literal
  /\ UNCHANGED exceptUnquote

UnquoteNext == Dump

UnquoteSpec == UnquoteInit /\ [][UnquoteNext]_vars

\* a parameter list followed by a braced body
IsFunctionLiteral(v) ==
  LET rp == FirstAt(v, 2, RP)
      lb == SkipSpace(v, rp + 1)
  IN  /\ Tok(v, 1) = FN
      /\ rp # 0
      /\ Tok(v, lb) = LB
      /\ lb < Len(v)
      /\ v[Len(v)] = RB

(***************************************************************************)
(* C13: a string value of function-literal shape, such as                  *)
(* "function(value) { return value; }", stands in the widget specification *)
(* as exactly its own text without quotes, and a string that has not that  *)
(* shape stays a quoted JSON string.                                       *)
(***************************************************************************)
C13_FunctionLiteralsUnquoted ==
  upc = "dumped" =>
    IF IsFunctionLiteral(literal) THEN emitted = literal
    ELSE emitted = JsonDumps(literal)

(***************************************************************************)
(* scripts/convert_to_pdf.py: convert_markdown_to_pdf from the capture of  *)
(* the charts on.  The converted HTML is a sequence of pieces: text, a     *)
(* canvas element with its id, an inline script that constructs a chart,   *)
(* another inline script, the script tag that loads chart.js, and the      *)
(* image container that stands for a captured canvas.                      *)
(***************************************************************************)
MaxPieces == 3

Piece(k, id) == [kind |-> k, id |-> id]

PieceAlphabet ==
  {Piece("text", ""), Piece("script", ""), Piece("chartjs_tag", "")}
    \cup {Piece("canvas", id) : id \in Ids}
    \cup {Piece("chart_script", id) : id \in Ids}

ConvertedHtmls == UNION {[1..n -> PieceAlphabet] : n \in 0..MaxPieces}

\* capture_charts_from_html: {} when the report is missing, else one image
\* for every canvas of the report that has an id
CaptureChartsFromHtml(rep) == IF rep.exists THEN rep.canvases ELSE {}

RECURSIVE FirstChartScript(_, _)

\* the first piece from p on that holds "new Chart", 0 when there is none
FirstChartScript(h, p) ==
  IF p > Len(h) THEN 0
  ELSE IF h[p].kind = "chart_script" THEN p
  ELSE FirstChartScript(h, p + 1)

RECURSIVE RemoveChartScripts(_, _)

\* re.sub(r'<script>.*?new Chart.*?</script>', '', html, flags=re.DOTALL) from
\* p on: a match opens at an inline script and ends with the first script
\* after it that constructs a chart
RemoveChartScripts(h, p) ==
  IF p > Len(h) THEN <<>>
  ELSE IF h[p].kind \in {"script", "chart_script"} /\ FirstChartScript(h, p) # 0
    THEN RemoveChartScripts(h, FirstChartScript(h, p) + 1)
  ELSE <<h[p]>> \o RemoveChartScripts(h, p + 1)

\* replace_charts_with_static_images(html_content, chart_images)
ReplaceChartsWithStaticImages(h, images) ==
  LET swapped == [k \in 1..Len(h) |->
                    IF h[k].kind = "canvas" /\ h[k].id \in images
                      THEN Piece("img", h[k].id)
                      ELSE h[k]]
      \* re.sub(r'<script[^>]*chart\.js[^>]*></script>', '', html_content)
      untagged == SelectSeq(swapped, LAMBDA x : x.kind # "chartjs_tag")
  IN  RemoveChartScripts(untagged, 1)

PdfInit ==
  /\ converted \in ConvertedHtmls
  /\ html_content = converted
  /\ report \in [exists : BOOLEAN, canvases : SUBSET Ids]
  /\ report.exists \/ report.canvases = {}
  /\ chart_images = {}
  /\ warnings = <<>>
  /\ full_html = <<>>
  /\ ppc = "capture"
  /\ AllIdleBut("pdf")

\* an exception out of the capture that leaves convert_markdown_to_pdf
CaptureRaisesAborts ==
  /\ ppc = "capture"
  /\ report.exists
  /\ ppc' = "aborted"
  /\ UNCHANGED <<converted, html_content, report, chart_images, warnings, full_html>>
  /\ UNCHANGED exceptPdf

\* the browser step raises: except Exception prints the warning
CaptureRaises ==
  /\ ppc = "capture"
  /\ report.exists
  /\ warnings' = Append(warnings, "Could not capture charts")
  /\ ppc' = "build"
  /\ UNCHANGED <<converted, html_content, report, chart_images, full_html>>
  /\ UNCHANGED exceptPdf

\* chart_images is empty: the else branch
CaptureNothing ==
  /\ ppc = "capture"
  /\ CaptureChartsFromHtml(report) = {}
  /\ warnings' = IF report.exists
                   THEN Append(warnings, "No charts found or captured")
                   ELSE warnings \o <<"HTML report not found",
                                      "No charts found or captured">>
  /\ ppc' = "build"
  /\ UNCHANGED <<converted, html_content, report, chart_images, full_html>>
  /\ UNCHANGED exceptPdf

\* chart_images is not empty: html_content = replace_charts_with_static_images(...)
CaptureReplaces ==
  /\ ppc = "capture"
  /\ CaptureChartsFromHtml(report) # {}
  /\ chart_images' = CaptureChartsFromHtml(report)
  /\ html_content' = ReplaceChartsWithStaticImages(html_content, chart_images')
  /\ ppc' = "build"
  /\ UNCHANGED <<converted, report, warnings, full_html>>
  /\ UNCHANGED exceptPdf

\* full_html is built around html_content and written
WritePdf ==
  /\ ppc = "build"
  /\ full_html' = html_content
  /\ ppc' = "written"
  /\ UNCHANGED <<converted, html_content, report, chart_images, warnings>>
  /\ UNCHANGED exceptPdf

PdfNext ==
  \/ CaptureRaises
  \/ CaptureNothing
  \/ CaptureReplaces
  \/ WritePdf

PdfSpec == PdfInit /\ [][PdfNext]_vars

CanvasIds(h) == {h[k].id : k \in {n \in 1..Len(h) : h[n].kind = "canvas"}}

ImageIds(h) == {h[k].id : k \in {n \in 1..Len(h) : h[n].kind = "img"}}

(***************************************************************************)
(* C14: when the capture yields images, the ids captured from the HTML     *)
(* report are the ids of the canvases of the document converted for the    *)
(* PDF, every such canvas is replaced by its image, and no canvas stays in *)
(* the HTML handed to the PDF writer.                                      *)
(***************************************************************************)
C14_EveryCanvasReplaced ==
  (ppc \in {"build", "written"} /\ chart_images # {}) =>
    /\ chart_images = CanvasIds(converted)
    /\ ImageIds(html_content) = CanvasIds(converted)
    /\ CanvasIds(html_content) = {}

Noted(w) == \E k \in 1..Len(warnings) : warnings[k] = w

\* the capture raised, the report is missing, or no chart was captured
CaptureFailed ==
  \/ Noted("Could not capture charts")
  \/ ~report.exists
  \/ CaptureChartsFromHtml(report) = {}

(***************************************************************************)
(* C15: the capture is best effort.  When it raises, when the HTML report  *)
(* is missing and when no chart is captured, convert_markdown_to_pdf does  *)
(* not abort: a warning is printed, html_content is still what md.convert  *)
(* returned, and the PDF is written from it.                               *)
(***************************************************************************)
C15_CaptureIsBestEffort ==
  /\ ppc # "aborted"
  /\ ppc = "build" => ENABLED WritePdf
  /\ (ppc \in {"build", "written"} /\ CaptureFailed) =>
       /\ warnings # <<>>
       /\ html_content = converted
       /\ chart_images = {}
  /\ (ppc = "written" /\ CaptureFailed) => full_html = converted

C15_Witness ==
  /\ ppc = "written"
  /\ Noted("Could not capture charts")
  /\ report.canvases # {}
  /\ CanvasIds(converted) # {}
  /\ full_html = converted

(***************************************************************************)
(* Several documents converted one after the other by the same Markdown    *)
(* instance: md.chart_configs is an attribute of the instance and stays    *)
(* on it from one convert to the next.                                     *)
(***************************************************************************)
MaxDocs == 2

MaxDocLen == 3

FirstDocuments == UNION {[1..n -> Alphabet] : n \in 0..MaxDocLen}

\* the later documents: the shorter ones, and one with a closed chart block
LaterDocuments ==
  {d \in FirstDocuments : Len(d) < MaxDocLen} \cup {<<FenceOpen, TypeLine, FenceClose>>}

MultiInit ==
  /\ lines \in FirstDocuments
  /\ i = 0
  /\ new_lines = <<>>
  /\ chart_lines = <<>>
  /\ hasStore = FALSE
  /\ chart_configs = EmptyDict
  /\ issued = <<>>
  /\ pc = "outer"
  /\ text = <<>>
  /\ html = <<>>
  /\ doc = 1
  /\ AllIdleBut("pipe")

\* a context that starts every document without a store
NextDocumentFresh ==
  /\ pc \in {"done", "raised", "index_error"}
  /\ doc < MaxDocs
  /\ lines' \in LaterDocuments
  /\ i' = 0
  /\ new_lines' = <<>>
  /\ chart_lines' = <<>>
  /\ hasStore' = FALSE
  /\ chart_configs' = EmptyDict
  /\ pc' = "outer"
  /\ text' = <<>>
  /\ html' = <<>>
  /\ doc' = doc + 1
  /\ UNCHANGED issued
  /\ UNCHANGED <<mergeVars, unquoteVars, pdfVars, renderVars, pageVars, templateVars>>

\* md.convert(source) once more on the same instance: run starts over on the
\* new lines, md.chart_configs is what the earlier documents left
NextDocument ==
  /\ pc \in {"done", "raised", "index_error"}
  /\ doc < MaxDocs
  /\ lines' \in LaterDocuments
  /\ i' = 0
  /\ new_lines' = <<>>
  /\ chart_lines' = <<>>
  /\ pc' = "outer"
  /\ text' = <<>>
  /\ html' = <<>>
  /\ doc' = doc + 1
  /\ UNCHANGED <<hasStore, chart_configs, issued>>
  /\ UNCHANGED <<mergeVars, unquoteVars, pdfVars, renderVars, pageVars, templateVars>>

MultiNext ==
  \/ OuterOpen
  \/ OuterCopy
  \/ InnerLoop
  \/ InnerExit
  \/ ParseEmpty
  \/ ParseStore
  \/ ParseError
  \/ RunReturn
  \/ Convert
  \/ PostRun
  \/ NextDocument

MultiSpec == MultiInit /\ [][MultiNext]_vars

\* the store is what it was
StoreKept == hasStore' = hasStore /\ chart_configs' = chart_configs

\* the step stores the configuration of a block
StoringStep == pc = "parse" /\ pc' = "outer" /\ Len(issued') = Len(issued) + 1

(***************************************************************************)
(* C16: the store is written by the extractor pass alone.  A step that     *)
(* changes the store is the extractor storing a block; the renderer pass   *)
(* (ChartPostprocessor.run with _generate_chart_html and _deep_merge)      *)
(* leaves the store and every stored configuration as they were; and when  *)
(* the renderer pass starts the extractor has read all the lines.          *)
(***************************************************************************)
C16_StoreReadOnlyAfterExtraction ==
  /\ [][StoreKept \/ StoringStep]_vars
  /\ [][(pc \in {"convert", "post", "done", "raised"}) => StoreKept]_vars
  /\ [](pc \in {"post", "done", "raised"} => i >= Len(lines))

C16_Witness ==
  /\ pc = "done"
  /\ doc = 2
  /\ Cardinality(DOMAIN chart_configs) = 2
  /\ \E k \in 1..Len(html) : html[k].w # NoWidget

\* the extractor is past the block s of the document
Processed(s) == pc \notin Running \/ i >= s.to

(***************************************************************************)
(* C17 as stated: on a fresh context there is no store before the          *)
(* extractor meets a chart block, and the store exists once the extractor  *)
(* has processed the first chart block of the document.                    *)
(***************************************************************************)
C17_StoreAfterFirstBlock ==
  doc = 1 =>
    /\ (\A s \in BlocksOf(lines) : pc = "outer" /\ i < s.from) => ~hasStore
    /\ (\E s \in BlocksOf(lines) : Processed(s)) => hasStore

(***************************************************************************)
(* C17, amended: on a fresh context the store exists exactly when the      *)
(* extractor has processed a chart block whose body is not empty and       *)
(* decodes (an empty block and a block that fails to decode leave the      *)
(* context without a store); and a store that exists stays, with all its   *)
(* keys: it is never replaced by a new empty one.                          *)
(***************************************************************************)
C17_StoreOnFirstStoredBlock ==
  /\ [](doc = 1 =>
         (hasStore <=> \E s \in BlocksOf(lines) : Decodable(lines, s) /\ Processed(s)))
  /\ [](~hasStore => chart_configs = EmptyDict)
  /\ [][hasStore => hasStore' /\ DOMAIN chart_configs \subseteq DOMAIN chart_configs']_vars

C17_Witness ==
  /\ doc = 1
  /\ pc = "outer"
  /\ ~hasStore
  /\ \E s \in BlocksOf(lines) : Processed(s) /\ ~Decodable(lines, s) /\ s.to < Len(lines)

\* every placeholder of the text whose identifier is stored came out as that
\* identifier's widget
AllResolved ==
  \A k \in 1..Len(text) :
    (MatchesPlaceholder(text[k]) /\ text[k].arg \in DOMAIN chart_configs) =>
      html[k].w.canvasId = text[k].arg

(***************************************************************************)
(* C20: no pass takes an entry out of the store.  Over the passes on one   *)
(* context the set of stored identifiers only grows and every identifier   *)
(* ever issued is stored; a later document that names an identifier of an  *)
(* earlier document gets that identifier's widget.                         *)
(***************************************************************************)
C20_StoreOnlyGrows ==
  /\ [][DOMAIN chart_configs \subseteq DOMAIN chart_configs' /\ (hasStore => hasStore')]_vars
  /\ [](IssuedIds \subseteq DOMAIN chart_configs)
  /\ [](pc = "done" => AllResolved)

C20_Witness ==
  /\ doc = 2
  /\ pc = "done"
  /\ lines = <<PlaceholderLine(IdPool[1])>>
  /\ issued = <<IdPool[1]>>
  /\ html[1].w.canvasId = IdPool[1]

(***************************************************************************)
(* _generate_chart_html called on a configuration that has any of the six  *)
(* fields or none                                                          *)
(***************************************************************************)
TitleOverride == Map([plugins |-> Map([title |-> Map([text |-> Str("Mine")])])])

\* the values a field can have when the configuration has it
FieldValues ==
  [type |-> {Str("line")},
   title |-> {Str("Sales"), Null},
   width |-> {Num("600")},
   height |-> {Num("300")},
   data |-> {Map([labels |-> List("Q1, Q2")])},
   options |-> {Map(EmptyDict), NestedOverride, TitleOverride}]

Configs ==
  {Map(f) : f \in UNION {{g \in [S -> UNION {FieldValues[k] : k \in S}] :
                             \A k \in S : g[k] \in FieldValues[k]} :
                          S \in SUBSET DOMAIN FieldValues}}

RenderInit ==
  /\ cfg \in Configs
  /\ rendered = Null
  /\ rpc = "call"
  /\ AllIdleBut("render")

\* replace_chart: self._generate_chart_html(chart_id, config)
RenderCall ==
  /\ rpc = "call"
  /\ \E chart_id \in Ids :
       LET g == GenerateChartHtml(chart_id, cfg)
       IN  rendered' = [raised |-> g.raised, w |-> g.out.w]
  /\ rpc' = "returned"
  /\ UNCHANGED cfg
  /\ UNCHANGED exceptRender

RenderNext == RenderCall

RenderSpec == RenderInit /\ [][RenderNext]_vars

\* the value the claim gives to a field the configuration has not
Defaults ==
  [type |-> Str("bar"), title |-> Str("Chart"), width |-> Num("800"),
   height |-> Num("400"), data |-> Map(EmptyDict), options |-> Map(EmptyDict)]

Resolved(key) == IF key \in DOMAIN cfg.m THEN cfg.m[key] ELSE Defaults[key]

\* the options set plugins.title.text themselves
SetsTitleText(options) ==
  /\ "plugins" \in DOMAIN options.m
  /\ IsDict(options.m.plugins)
  /\ "title" \in DOMAIN options.m.plugins.m
  /\ IsDict(options.m.plugins.m.title)
  /\ "text" \in DOMAIN options.m.plugins.m.title.m

(***************************************************************************)
(* C18: the widget is made from the configuration's value for type, title, *)
(* width, height, data and options where the configuration has the field,  *)
(* and from bar, "Chart", 800, 400, {} and {} where it has not.  The       *)
(* resolved title is options.plugins.title.text unless the options set     *)
(* that text themselves; without options of its own the widget has the     *)
(* default options; the specification has the fields type, data and        *)
(* options and no other.                                                   *)
(***************************************************************************)
C18_FieldDefaults ==
  rpc = "returned" =>
    /\ ~rendered.raised
    /\ rendered.w.width = Resolved("width")
    /\ rendered.w.height = Resolved("height")
    /\ DOMAIN rendered.w.spec.m = {"type", "data", "options"}
    /\ rendered.w.spec.m.type = Resolved("type")
    /\ rendered.w.spec.m.data = Resolved("data")
    /\ rendered.w.spec.m.options.m.plugins.m.title.m.text =
         IF SetsTitleText(Resolved("options"))
           THEN Resolved("options").m.plugins.m.title.m.text
           ELSE Resolved("title")
    /\ Resolved("options") = Map(EmptyDict) =>
         /\ DOMAIN rendered.w.spec.m.options.m =
              {"responsive", "maintainAspectRatio", "plugins", "scales"}
         /\ rendered.w.spec.m.options.m.scales.m.y.m.beginAtZero = Bool("true")
         /\ rendered.w.spec.m.options.m.plugins.m.legend.m.position = Str("top")

C18_Witness ==
  /\ rpc = "returned"
  /\ DOMAIN cfg.m = {"width", "data"}
  /\ rendered.w.width = Num("600")
  /\ rendered.w.height = Num("400")
  /\ rendered.w.spec.m.type = Str("bar")
  /\ rendered.w.spec.m.data = cfg.m.data
  /\ rendered.w.spec.m.options.m.plugins.m.title.m.text = Str("Chart")

(***************************************************************************)
(* The page, lines 143-166: the inline scripts that look up one canvas by  *)
(* its id.  Each script holds initChart with "const config = ..." in it,   *)
(* and runs initChart at once or on DOMContentLoaded; initChart polls with *)
(* setTimeout until Chart is defined.  A script is "unrun" before the      *)
(* browser reaches it, then "listening" (initChart waits for               *)
(* DOMContentLoaded), "polling" (a timeout is pending), "idle" (initChart  *)
(* has returned for good) or "syntax_error" (the script did not compile).  *)
(***************************************************************************)
NumScripts == 2

Scripts == 1..NumScripts

\* the callback text of a chart without options, and of charts whose options
\* set scales.y.ticks.callback to "function(value) { return value; }" and to
\* "function(){}" (which stays a quoted string)
CallbackTexts ==
  {ConfigJson(Tokenize(TickCallback)),
   ConfigJson(Tokenize("function(value) { return value; }")),
   ConfigJson(<<FN, RP, LB, RB>>)}

\* JavaScript has no backslash outside a string literal
ScriptCompiles(js) == Tok(js, 1) = DQ \/ \A k \in 1..Len(js) : js[k] # BS

\* if (ctx && !ctx.chart) { ctx.chart = new Chart(ctx, config); }
Construct(w) == IF surface /\ w = 0 THEN w + 1 ELSE w

\* initChart() called from script s
InitChart(s) ==
  IF ~chartDefined
    THEN phase' = [phase EXCEPT ![s] = "polling"] /\ widgets' = widgets
    ELSE phase' = [phase EXCEPT ![s] = "idle"] /\ widgets' = Construct(widgets)

PageInit ==
  /\ config_js \in [Scripts -> CallbackTexts]
  /\ phase = [s \in Scripts |-> "unrun"]
  /\ readyState \in {"loading", "complete"}
  /\ chartDefined \in BOOLEAN
  /\ surface \in BOOLEAN
  /\ widgets = 0
  /\ AllIdleBut("page")

\* the browser runs the script element, in document order
RunScript(s) ==
  /\ phase[s] = "unrun"
  /\ \A r \in Scripts : r < s => phase[r] # "unrun"
  /\ IF ~ScriptCompiles(config_js[s])
       THEN phase' = [phase EXCEPT ![s] = "syntax_error"] /\ widgets' = widgets
       ELSE IF readyState = "loading"
         THEN phase' = [phase EXCEPT ![s] = "listening"] /\ widgets' = widgets
         ELSE InitChart(s)
  /\ UNCHANGED <<config_js, readyState, chartDefined, surface>>
  /\ UNCHANGED exceptPage

RECURSIVE ConstructTimes(_, _)

ConstructTimes(w, n) == IF n = 0 THEN w ELSE ConstructTimes(Construct(w), n - 1)

\* the document is parsed: every listener runs initChart
DomContentLoaded ==
  /\ readyState = "loading"
  /\ \A s \in Scripts : phase[s] # "unrun"
  /\ readyState' = "complete"
  /\ LET listening == {s \in Scripts : phase[s] = "listening"}
     IN  IF ~chartDefined
           THEN /\ phase' = [s \in Scripts |->
                              IF s \in listening THEN "polling" ELSE phase[s]]
                /\ widgets' = widgets
           ELSE /\ phase' = [s \in Scripts |->
                              IF s \in listening THEN "idle" ELSE phase[s]]
                /\ widgets' = ConstructTimes(widgets, Cardinality(listening))
  /\ UNCHANGED <<config_js, chartDefined, surface>>
  /\ UNCHANGED exceptPage

\* setTimeout(initChart, 100) comes due
TimerFires(s) ==
  /\ phase[s] = "polling"
  /\ InitChart(s)
  /\ UNCHANGED <<config_js, readyState, chartDefined, surface>>
  /\ UNCHANGED exceptPage

\* the Chart.js script has loaded
RuntimeLoads ==
  /\ ~chartDefined
  /\ chartDefined' = TRUE
  /\ UNCHANGED <<config_js, phase, readyState, surface, widgets>>
  /\ UNCHANGED exceptPage

PageNext ==
  \/ \E s \in Scripts : RunScript(s)
  \/ DomContentLoaded
  \/ \E s \in Scripts : TimerFires(s)
  \/ RuntimeLoads

\* the browser runs every script, fires the event and every pending timeout;
\* whether the runtime ever loads is left open
PageSpec ==
  /\ PageInit
  /\ [][PageNext]_vars
  /\ \A s \in Scripts : WF_vars(RunScript(s))
  /\ \A s \in Scripts : WF_vars(TimerFires(s))
  /\ WF_vars(DomContentLoaded)

(***************************************************************************)
(* C19: a widget is constructed only when the runtime is available, the    *)
(* surface is present and the surface has no widget, so the surface never  *)
(* has more than one; an init routine that polls keeps polling while the   *)
(* runtime is unavailable; and when the runtime is available a present     *)
(* surface eventually has its widget.                                      *)
(***************************************************************************)
C19_InitRoutine ==
  /\ [][widgets' # widgets => chartDefined /\ surface /\ widgets = 0 /\ widgets' = 1]_vars
  /\ [](widgets <= 1)
  /\ [][\A s \in Scripts :
          (phase[s] = "polling" /\ ~chartDefined) => phase'[s] = "polling"]_vars
  /\ (chartDefined /\ surface) ~> (widgets = 1)

\* what stands for one piece once the charts are static: the image for a
\* captured canvas, nothing for a script that constructs a chart or loads
\* chart.js, the piece itself otherwise
StaticFor(x, images) ==
  IF x.kind = "canvas" /\ x.id \in images THEN <<Piece("img", x.id)>>
  ELSE IF x.kind \in {"chart_script", "chartjs_tag"} THEN <<>>
  ELSE <<x>>

RECURSIVE StaticPieces(_, _)

StaticPieces(h, images) ==
  IF h = <<>> THEN <<>>
  ELSE StaticFor(Head(h), images) \o StaticPieces(Tail(h), images)

(***************************************************************************)
(* C21: replace_charts_with_static_images puts the image container in the  *)
(* place of every canvas whose id is a key of chart_images, removes every  *)
(* script that constructs a chart, and leaves every other piece of the     *)
(* HTML, the canvases with other ids included, as it was and in order.     *)
(***************************************************************************)
C21_ReplacementIsExact ==
  (ppc \in {"build", "written"} /\ chart_images # {}) =>
    html_content = StaticPieces(converted, chart_images)

(***************************************************************************)
(* get_chart_template.  CHART_TEMPLATES is a module-level dict of four     *)
(* template dicts; each template has the keys type, title, width, height,  *)
(* data and options, the last two being dicts themselves.  The objects of  *)
(* the table are laid out in a heap as for _deep_merge, so that a write    *)
(* through a returned dict into the table can be told from a write into a  *)
(* copy.                                                                   *)
(***************************************************************************)
MaxCalls == 2

Template(type, title, width, labels, inner) ==
  Map([type |-> Str(type), title |-> Str(title), width |-> Num(width),
       height |-> Num("400"),
       data |-> Map([labels |-> List(labels), datasets |-> List("datasets")]),
       options |-> Map(Put(EmptyDict, inner, Str("settings")))])

CHART_TEMPLATES ==
  Map([revenue_comparison |->
         Template("bar", "Municipal Revenue Comparison", "800",
                  "Cleveland, Suburban Average", "scales"),
       property_tax_distribution |->
         Template("doughnut", "Cleveland Property Tax Distribution", "600",
                  "Cleveland Schools, County, City, Library", "plugins"),
       economic_development_investment |->
         Template("bar", "County Economic Development Investment by Region",
                  "800", "Cleveland, Inner Ring Suburbs, Outer Ring Suburbs",
                  "scales"),
       employment_flows |->
         Template("line", "Regional Employment Flow to Cleveland", "800",
                  "Healthcare, Downtown Core, Universities, Total", "scales")])

\* the objects of the table as the module creates them; r is the table itself
TemplateObjects == Alloc(<<>>, CHART_TEMPLATES)

\* the names a caller passes: the four of the table and one that is not in it
TemplateNames == DOMAIN CHART_TEMPLATES.m \cup {"unknown_template"}

\* the keyword arguments of a call: two keys every template has, one it lacks
Overrides ==
  LET given == [type |-> Str("pie"), title |-> Str("Custom title"),
                caption |-> Str("Source: county budget")]
  IN  {[k \in S |-> given[k]] : S \in SUBSET {"type", "title", "caption"}}

\* no copy taken: the local name template is bound to the table's own dict
Alias(h, a) == [h |-> h, r |-> a]

\* dict.copy(): a new dict object with the cells of the one at address a
Copy(h, a) == [h |-> Append(h, h[a]), r |-> Len(h) + 1]

TemplateInit ==
  /\ objects = TemplateObjects.h
  /\ template_name = ""
  /\ kwargs = EmptyDict
  /\ template = 0
  /\ tpc = "call"
  /\ calls = 0
  /\ AllIdleBut("template")

\* one call get_chart_template(name, **kw)
GetChartTemplate(name, kw) ==
  /\ calls < MaxCalls
  /\ calls' = calls + 1
  /\ template_name' = name
  /\ kwargs' = kw
  /\ IF name \notin DOMAIN objects[TemplateObjects.r]
       THEN /\ tpc' = "ValueError"
            /\ template' = 0
            /\ objects' = objects
       ELSE LET c == Copy(objects, objects[TemplateObjects.r][name].ref)
                old == c.h[c.r]
                new == [key \in DOMAIN old |->
                          IF key \in DOMAIN kw THEN ValCell(kw[key])
                          ELSE old[key]]
            IN  /\ tpc' = "returned"
                /\ template' = c.r
                /\ objects' = [c.h EXCEPT ![c.r] = new]
  /\ UNCHANGED exceptTemplate

TemplateNext == \E name \in TemplateNames, kw \in Overrides : GetChartTemplate(name, kw)

TemplateSpec == TemplateInit /\ [][TemplateNext]_vars

\* the template of the last call with the overrides it has keys for
Overridden ==
  LET chosen == CHART_TEMPLATES.m[template_name].m
  IN  Map([key \in DOMAIN chosen |->
             IF key \in DOMAIN kwargs THEN kwargs[key] ELSE chosen[key]])

\* every object the table is made of is as the module created it
TableIntact ==
  /\ Len(objects) >= Len(TemplateObjects.h)
  /\ \A a \in 1..Len(TemplateObjects.h) : objects[a] = TemplateObjects.h[a]
  /\ Deref(objects, TemplateObjects.r) = CHART_TEMPLATES

(***************************************************************************)
(* C22: a call of get_chart_template with a name that is not a key of      *)
(* CHART_TEMPLATES raises ValueError; any other call returns a dict that   *)
(* is not one of the table's own, holding the template's keys and values   *)
(* except that an override whose key the template has replaces the value,  *)
(* and an override with any other key adds nothing; after any number of    *)
(* calls the table, its templates and their values are as they were.       *)
(***************************************************************************)
C22_TemplatesAreCopied ==
  /\ TableIntact
  /\ tpc \in {"returned", "ValueError"} =>
       /\ tpc = "ValueError" <=> template_name \notin DOMAIN CHART_TEMPLATES.m
       /\ tpc = "returned" =>
            /\ template \in (Len(TemplateObjects.h) + 1)..Len(objects)
            /\ Deref(objects, template) = Overridden

\* a second call that applied an override and ignored another
C22_Witness ==
  /\ tpc = "returned"
  /\ calls >= 2
  /\ {"title", "caption"} \subseteq DOMAIN kwargs
  /\ Deref(objects, template).m["title"] = kwargs["title"]
  /\ "caption" \notin DOMAIN objects[template]
  /\ Deref(objects, template) # CHART_TEMPLATES.m[template_name]

============================================================================
